---- MODULE Spec2Model ----
(***************************************************************************)
(* Model of the AtomVM ADC NIF collection (src/nifs/atomvm_adc.c): the     *)
(* three direct-call entry points adc:config_width/2,                      *)
(* adc:config_channel_attenuation/2 and adc:take_reading/4, the pin,       *)
(* width and attenuation resolvers they share, and the ESP-IDF ADC driver  *)
(* and calibration state they act on.                                      *)
(***************************************************************************)
EXTENDS Integers, Sequences, FiniteSets, TLC

\* ------------------------------------------------------------------------
\* Bounds of the model
\* ------------------------------------------------------------------------
MaxPin == 40
MaxSamples == 3
MaxPattern == 2
MaxOutstanding == 2
BigSamples == 1048833

\* ------------------------------------------------------------------------
\* Program and vendor constants
\* ------------------------------------------------------------------------
DEFAULT_SAMPLES == 64
DEFAULT_VREF == 1100

ADC_WIDTH_BIT_9 == 0
ADC_WIDTH_BIT_10 == 1
ADC_WIDTH_BIT_11 == 2
ADC_WIDTH_BIT_12 == 3
ADC_WIDTH_MAX == 4

ADC_ATTEN_DB_0 == 0
ADC_ATTEN_DB_2_5 == 1
ADC_ATTEN_DB_6 == 2
ADC_ATTEN_DB_11 == 3
ADC_ATTEN_MAX == 4

ADC_UNIT_1 == 1
ADC_UNIT_2 == 2
ADC_UNIT_MAX == 8

ADC_CHANNEL_MAX == 10

ESP_OK == 0
ESP_ERR_INVALID_ARG == 258
ESP_ERR_TIMEOUT == 263

\* ------------------------------------------------------------------------
\* Terms of the managed runtime: atoms and integers; a result is the
\* sequence of the elements of the returned term (one element for a bare
\* atom, two for a 2-tuple).
\* ------------------------------------------------------------------------
Atom(s) == [t |-> "atom", s |-> s, i |-> 0]
IntTerm(i) == [t |-> "int", s |-> "", i |-> i]

OK_ATOM == Atom("ok")
ERROR_ATOM == Atom("error")
UNDEFINED_ATOM == Atom("undefined")
OUT_OF_MEMORY_ATOM == Atom("out_of_memory")

WidthAtoms == {"bit_9", "bit_10", "bit_11", "bit_12"}
AttenAtoms == {"db_0", "db_2_5", "db_6", "db_11"}

\* ------------------------------------------------------------------------
\* State
\* ------------------------------------------------------------------------
VARIABLES
    adc2_enable,   \* build flag CONFIG_AVM_ADC2_ENABLE
    efuse,         \* calibration data burned into the chip: "tp", "vref", "none"
    adc1_width,    \* ADC1 driver: the configured capture width
    chan_atten,    \* ADC driver: attenuation configured per <<unit, channel>>
    heap_chars,    \* calloc'ed esp_adc_cal_characteristics_t buffers not freed
    call,          \* the NIF call in progress or just finished, with arguments
    ret,           \* what that call handed back to the caller
    obs            \* what that call did on the way (driver calls, heap, reads)

vars == <<adc2_enable, efuse, adc1_width, chan_atten, heap_chars, call, ret, obs>>

\* ------------------------------------------------------------------------
\* Resolvers
\* ------------------------------------------------------------------------
get_width_default(width) ==
    IF width = "bit_9" THEN ADC_WIDTH_BIT_9
    ELSE IF width = "bit_10" THEN ADC_WIDTH_BIT_10
    ELSE IF width = "bit_11" THEN ADC_WIDTH_BIT_11
    ELSE ADC_WIDTH_BIT_12

\* The source keeps both arms of a target conditional around get_width; the
\* model follows the arm that matches the four width atoms (the ESP32 arm,
\* whose pin tables the resolvers below use).
get_width(width) ==
    IF width = "bit_9" THEN ADC_WIDTH_BIT_9
    ELSE IF width = "bit_10" THEN ADC_WIDTH_BIT_10
    ELSE IF width = "bit_11" THEN ADC_WIDTH_BIT_11
    ELSE IF width = "bit_12" THEN ADC_WIDTH_BIT_12
    ELSE ADC_WIDTH_MAX

get_attenuation(attenuation) ==
    IF attenuation = "db_0" THEN ADC_ATTEN_DB_0
    ELSE IF attenuation = "db_2_5" THEN ADC_ATTEN_DB_2_5
    ELSE IF attenuation = "db_6" THEN ADC_ATTEN_DB_6
    ELSE IF attenuation = "db_11" THEN ADC_ATTEN_DB_11
    ELSE ADC_ATTEN_MAX

Adc1Pins == {32, 33, 34, 35, 36, 37, 38, 39}
Adc2Pins == {0, 2, 4, 12, 13, 14, 15, 25, 26, 27}

adc_unit_from_pin_hole(adc2, pin_val) ==
    IF pin_val \in Adc1Pins \ {39} THEN ADC_UNIT_1
    ELSE IF adc2 /\ pin_val \in Adc2Pins THEN ADC_UNIT_2
    ELSE ADC_UNIT_MAX

adc_unit_from_pin(adc2, pin_val) ==
    IF pin_val \in Adc1Pins THEN ADC_UNIT_1
    ELSE IF adc2 /\ pin_val \in Adc2Pins THEN ADC_UNIT_2
    ELSE ADC_UNIT_MAX

Adc1ChannelOf(pin_val) ==
    CASE pin_val = 32 -> 4
      [] pin_val = 33 -> 5
      [] pin_val = 34 -> 6
      [] pin_val = 35 -> 7
      [] pin_val = 36 -> 0
      [] pin_val = 37 -> 1
      [] pin_val = 38 -> 2
      [] pin_val = 39 -> 3

Adc2ChannelOf(pin_val) ==
    CASE pin_val = 0 -> 1
      [] pin_val = 2 -> 2
      [] pin_val = 4 -> 0
      [] pin_val = 12 -> 5
      [] pin_val = 13 -> 4
      [] pin_val = 14 -> 6
      [] pin_val = 15 -> 3
      [] pin_val = 25 -> 8
      [] pin_val = 26 -> 9
      [] pin_val = 27 -> 7

get_channel_alias0(adc2, pin_val) ==
    IF pin_val \in Adc1Pins THEN Adc1ChannelOf(pin_val)
    ELSE IF adc2 /\ pin_val \in Adc2Pins THEN Adc2ChannelOf(pin_val)
    ELSE 0

get_channel(adc2, pin_val) ==
    IF pin_val \in Adc1Pins THEN Adc1ChannelOf(pin_val)
    ELSE IF adc2 /\ pin_val \in Adc2Pins THEN Adc2ChannelOf(pin_val)
    ELSE ADC_CHANNEL_MAX

\* The pins a caller may name in the model: one below the lowest pin, every
\* pin of the package, one above the highest.
PinRange == (0 - 1) .. MaxPin

\* ------------------------------------------------------------------------
\* 32-bit unsigned arithmetic (uint32_t adc_reading), held as <<high 16
\* bits, low 16 bits>> so that wrap-around is computed and not lost.
\* ------------------------------------------------------------------------
W16 == 65536

Min(a, b) == IF a < b THEN a ELSE b
Max(a, b) == IF a > b THEN a ELSE b

\* conversion of a signed int to uint32_t
U32FromInt(n) == <<(n \div W16) % W16, n % W16>>

\* conversion of a uint32_t to int32_t
U32ToInt32(x) == IF x[1] >= 32768 THEN (x[1] - W16) * W16 + x[2] ELSE x[1] * W16 + x[2]

\* x + m * v modulo 2^32: m additions of the int v to the accumulator x
U32AddMul(x, m, v) ==
    LET mh == m \div W16
        ml == m % W16
        t == x[2] + ml * v
    IN  <<(x[1] + mh * v + (t \div W16)) % W16, t % W16>>

U32Bit(x, i) == IF i >= 16 THEN (x[1] \div (2 ^ (i - 16))) % 2 ELSE (x[2] \div (2 ^ i)) % 2
U32SetBit(q, i) == IF i >= 16 THEN <<q[1] + 2 ^ (i - 16), q[2]>> ELSE <<q[1], q[2] + 2 ^ i>>
U32Geq(a, b) == a[1] > b[1] \/ (a[1] = b[1] /\ a[2] >= b[2])
U32Sub(a, b) == LET t == a[2] - b[2] IN <<a[1] - b[1] + (t \div W16), t % W16>>
U32Shl1(r, b) == LET t == r[2] * 2 + b IN <<r[1] * 2 + (t \div W16), t % W16>>

RECURSIVE U32DivStep(_, _, _, _, _)
U32DivStep(x, d, i, q, r) ==
    IF i < 0 THEN q
    ELSE LET r1 == U32Shl1(r, U32Bit(x, i))
         IN  IF U32Geq(r1, d)
             THEN U32DivStep(x, d, i - 1, U32SetBit(q, i), U32Sub(r1, d))
             ELSE U32DivStep(x, d, i - 1, q, r1)

\* the unsigned quotient x / d, d # 0: short division by a divisor below
\* 2^15, bit-by-bit long division otherwise
U32Div(x, d) ==
    IF d[1] = 0 /\ d[2] < 32768
    THEN <<x[1] \div d[2], ((x[1] % d[2]) * W16 + x[2]) \div d[2]>>
    ELSE U32DivStep(x, d, 31, <<0, 0>>, <<0, 0>>)

\* ------------------------------------------------------------------------
\* ESP-IDF calibration library (esp_adc_cal), as the NIF uses it
\* ------------------------------------------------------------------------
VrefAttenScale(adc_num) ==
    IF adc_num = ADC_UNIT_1 THEN <<57431, 76236, 105481, 196602>>
    ELSE <<57236, 76175, 105678, 194170>>
VrefAttenOffset(adc_num) ==
    IF adc_num = ADC_UNIT_1 THEN <<75, 78, 107, 142>> ELSE <<63, 66, 89, 128>>
TpAttenScale(adc_num) ==
    IF adc_num = ADC_UNIT_1 THEN <<65504, 86975, 120389, 224310>>
    ELSE <<65467, 86861, 120416, 224708>>
TpAttenOffset(adc_num) ==
    IF adc_num = ADC_UNIT_1 THEN <<0, 1, 27, 54>> ELSE <<0, 9, 26, 66>>

\* What the chip's eFuse holds when it holds anything: the reference voltage
\* in mV, and the two-point readings <<low, high>> taken at 150 mV and 850 mV.
EfuseVref == 1128
EfuseTp == <<278, 3265>>

\* esp_adc_cal_characterize(adc_num, atten, bit_width, default_vref, chars):
\* Two Point values when burned, else the eFuse Vref when burned, else the
\* caller's default Vref. The result is the filled-in chars buffer.
esp_adc_cal_characterize(fuse, adc_num, atten, bit_width, default_vref) ==
    LET val_type == IF fuse = "tp" THEN "efuse_tp"
                    ELSE IF fuse = "vref" THEN "efuse_vref"
                    ELSE "default_vref"
        vref == IF val_type = "efuse_vref" THEN EfuseVref ELSE default_vref
        delta_x == EfuseTp[2] - EfuseTp[1]
        delta_v == 850 - 150
    IN  [adc_num |-> adc_num, atten |-> atten, bit_width |-> bit_width,
         val_type |-> val_type, vref |-> vref,
         coeff_a |-> IF val_type = "efuse_tp"
                     THEN (delta_v * TpAttenScale(adc_num)[atten + 1] + (delta_x \div 2)) \div delta_x
                     ELSE (vref * VrefAttenScale(adc_num)[atten + 1]) \div 4096,
         coeff_b |-> IF val_type = "efuse_tp"
                     THEN 850 - ((delta_v * EfuseTp[2] + (delta_x \div 2)) \div delta_x)
                          + TpAttenOffset(adc_num)[atten + 1]
                     ELSE VrefAttenOffset(adc_num)[atten + 1]]

\* esp_adc_cal_raw_to_voltage(adc_reading, chars): the reading is scaled to
\* 12 bits, clamped to 4095 and mapped linearly to millivolts.
esp_adc_cal_raw_to_voltage(adc_reading, chars) ==
    LET s == 2 ^ (ADC_WIDTH_BIT_12 - chars.bit_width)
        lo == adc_reading[2] * s
        shifted == <<(adc_reading[1] * s + (lo \div W16)) % W16, lo % W16>>
        r == IF shifted[1] > 0 \/ shifted[2] > 4095 THEN 4095 ELSE shifted[2]
    IN  ((chars.coeff_a * r + 32768) \div 65536) + chars.coeff_b

\* ------------------------------------------------------------------------
\* ESP-IDF ADC driver. A read's outcome is [err, val]: the driver's status
\* and, when the status is ESP_OK, the sample. The outcomes of the reads of
\* one call are drv[1], drv[2], ...; after the last one listed the hardware
\* keeps answering as it last did.
\* ------------------------------------------------------------------------
Outcome(err, val) == [err |-> err, val |-> val]

\* int adc1_get_raw(channel): the sample, or -1 on failure
adc1_get_raw(o) == IF o.err = ESP_OK THEN o.val ELSE 0 - 1

\* esp_err_t adc1_config_width(bit_width): the driver's width afterwards
adc1_config_width_skipped(cur_width, bit_width, err) == cur_width

adc1_config_width(cur_width, bit_width, err) ==
    IF err = ESP_OK THEN bit_width ELSE cur_width

\* ------------------------------------------------------------------------
\* What a NIF hands back, and what it did on the way
\* ------------------------------------------------------------------------
Return(term) == [kind |-> "return", term |-> term]
Raise(atom) == [kind |-> "raise", term |-> <<atom>>]
Trap == [kind |-> "trap", term |-> <<>>]
NoRet == [kind |-> "none", term |-> <<>>]

NoObs == [unit |-> ADC_UNIT_MAX, channel |-> ADC_CHANNEL_MAX, driver |-> 0,
          reads |-> 0, read_width |-> ADC_WIDTH_MAX, callocs |-> 0, frees |-> 0,
          divs |-> 0, chars |-> <<>>, drv |-> <<>>, width_before |-> ADC_WIDTH_MAX]

Idle == [op |-> "idle", pin |-> 0, width |-> "", atten |-> "",
         samples |-> <<>>, raw |-> FALSE, voltage |-> FALSE]

\* if (memory_ensure_free(ctx, 3) != MEMORY_GC_OK) RAISE_ERROR(OUT_OF_MEMORY_ATOM)
\* else return {error, Reason}
error_tuple(heap_full, reason) ==
    IF heap_full THEN Raise(OUT_OF_MEMORY_ATOM) ELSE Return(<<ERROR_ATOM, reason>>)

\* The effect of one call: its result, its observations, the driver's ADC1
\* width and per-channel attenuation afterwards, the change of the number
\* of outstanding chars buffers.
Effect(r, o, w, a, leak) == [ret |-> r, obs |-> o, width |-> w, atten |-> a, leak |-> leak]

\* ------------------------------------------------------------------------
\* adc:config_width/2
\* ------------------------------------------------------------------------
nif_adc_config_width(adc2, cur_width, cur_atten, pin, width, env) ==
    LET adc_unit == adc_unit_from_pin(adc2, pin)
        bit_width == get_width(width)
        err == IF env.config_err THEN ESP_ERR_INVALID_ARG ELSE ESP_OK
        o0 == [NoObs EXCEPT !.unit = adc_unit]
        o1 == [o0 EXCEPT !.driver = 1]
    IN  IF adc_unit = ADC_UNIT_MAX
        THEN Effect(error_tuple(env.heap_full, Atom("invalid_pin")), o0, cur_width, cur_atten, 0)
        ELSE IF bit_width = ADC_WIDTH_MAX
        THEN Effect(error_tuple(env.heap_full, Atom("invalid_width")), o0, cur_width, cur_atten, 0)
        ELSE IF adc_unit = ADC_UNIT_1
        THEN IF err # ESP_OK
             THEN Effect(error_tuple(env.heap_full, IntTerm(err)), o1,
                         adc1_config_width(cur_width, bit_width, err), cur_atten, 0)
             ELSE Effect(Return(<<OK_ATOM>>), o1,
                         adc1_config_width(cur_width, bit_width, err), cur_atten, 0)
        ELSE Effect(Return(<<OK_ATOM>>), o0, cur_width, cur_atten, 0)

\* ------------------------------------------------------------------------
\* adc:config_channel_attenuation/2
\* ------------------------------------------------------------------------
nif_adc_config_channel_attenuation(adc2, cur_width, cur_atten, pin, attenuation, env) ==
    LET channel == get_channel(adc2, pin)
        atten == get_attenuation(attenuation)
        adc_unit == adc_unit_from_pin(adc2, pin)
        err == IF env.config_err THEN ESP_ERR_INVALID_ARG ELSE ESP_OK
        o0 == [NoObs EXCEPT !.channel = channel]
        o1 == [o0 EXCEPT !.unit = adc_unit]
        o2 == [o1 EXCEPT !.driver = 1]
    IN  IF channel = ADC_CHANNEL_MAX
        THEN Effect(error_tuple(env.heap_full, Atom("invalid_pin")), o0, cur_width, cur_atten, 0)
        ELSE IF atten = ADC_ATTEN_MAX
        THEN Effect(error_tuple(env.heap_full, Atom("invalid_db")), o0, cur_width, cur_atten, 0)
        ELSE IF adc_unit = ADC_UNIT_1 \/ (adc2 /\ adc_unit = ADC_UNIT_2)
        THEN IF err # ESP_OK
             THEN Effect(error_tuple(env.heap_full, IntTerm(err)), o2, cur_width, cur_atten, 0)
             ELSE Effect(Return(<<OK_ATOM>>), o2, cur_width,
                         [cur_atten EXCEPT ![<<adc_unit, channel>>] = atten], 0)
        ELSE Effect(Return(<<OK_ATOM>>), o1, cur_width, cur_atten, 0)

\* ------------------------------------------------------------------------
\* adc:take_reading/4
\* ------------------------------------------------------------------------
\* for (i = 0; i < samples_val; ++i) adc_reading += adc1_get_raw(channel);
\* the first k iterations one by one, the rest (the hardware answering as it
\* last did) in one step.
RECURSIVE adc1_steps(_, _, _, _)
adc1_steps(drv, k, i, acc) ==
    IF i >= k THEN acc
    ELSE adc1_steps(drv, k, i + 1, U32AddMul(acc, 1, adc1_get_raw(drv[i + 1])))

adc1_loop(drv, samples_val) ==
    LET k == Max(0, Min(samples_val, Len(drv)))
        m == Max(0, samples_val - k)
    IN  [acc |-> U32AddMul(adc1_steps(drv, k, 0, <<0, 0>>), m, adc1_get_raw(drv[Len(drv)])),
         reads |-> k + m, timeout |-> FALSE]

\* for (i = 0; i < samples_val; ++i) {
\*     r = adc2_get_raw(channel, bit_width, &read_raw);
\*     if (r == ESP_ERR_TIMEOUT) return {error, timeout};
\*     adc_reading += read_raw; }
\* read_raw is written by the driver only when it returns ESP_OK.
RECURSIVE adc2_steps(_, _, _, _)
adc2_steps(drv, k, i, st) ==
    IF i >= k THEN st
    ELSE LET o == drv[i + 1]
             read_raw == IF o.err = ESP_OK THEN o.val ELSE st.read_raw
         IN  IF o.err = ESP_ERR_TIMEOUT
             THEN [st EXCEPT !.reads = i + 1, !.timeout = TRUE]
             ELSE adc2_steps(drv, k, i + 1,
                             [acc |-> U32AddMul(st.acc, 1, read_raw), read_raw |-> read_raw,
                              reads |-> i + 1, timeout |-> FALSE])

adc2_loop(drv, samples_val, junk) ==
    LET k == Max(0, Min(samples_val, Len(drv)))
        m == Max(0, samples_val - k)
        st == adc2_steps(drv, k, 0, [acc |-> <<0, 0>>, read_raw |-> junk,
                                     reads |-> 0, timeout |-> FALSE])
    IN  IF st.timeout THEN st
        ELSE [st EXCEPT !.acc = U32AddMul(st.acc, m, st.read_raw), !.reads = st.reads + m]

\* raw = raw == true ? term_from_int32(adc_reading) : undefined
raw_term(raw, adc_reading) ==
    IF raw THEN IntTerm(U32ToInt32(adc_reading)) ELSE UNDEFINED_ATOM

\* voltage = voltage == true
\*     ? term_from_int32(esp_adc_cal_raw_to_voltage(adc_reading, adc_chars)) : undefined
voltage_term_uncalibrated(voltage, adc_reading, adc_chars) ==
    IF voltage /\ adc_chars.val_type # "default_vref"
    THEN IntTerm(esp_adc_cal_raw_to_voltage(adc_reading, adc_chars))
    ELSE UNDEFINED_ATOM

voltage_term_unconverted(voltage, adc_reading, adc_chars) ==
    IF voltage THEN IntTerm(U32ToInt32(adc_reading)) ELSE UNDEFINED_ATOM

voltage_term(voltage, adc_reading, adc_chars) ==
    IF voltage
    THEN IntTerm(esp_adc_cal_raw_to_voltage(adc_reading, adc_chars))
    ELSE UNDEFINED_ATOM

\* From "adc_reading /= samples_val" to the end of the function. Dividing by
\* zero is undefined: the build traps, or goes on with some quotient.
take_reading_finish(acc, samples_val, raw, voltage, adc_chars, env, o, w, a) ==
    LET o1 == [o EXCEPT !.divs = 1]
        o2 == [o1 EXCEPT !.frees = 1]
        adc_reading == IF samples_val = 0 THEN U32FromInt(env.junk)
                       ELSE U32Div(acc, U32FromInt(samples_val))
    IN  IF samples_val = 0 /\ env.ub = "trap"
        THEN Effect(Trap, o1, w, a, 1)
        ELSE IF env.heap_full
        THEN Effect(Raise(OUT_OF_MEMORY_ATOM), o2, w, a, 0)
        ELSE Effect(Return(<<raw_term(raw, adc_reading),
                             voltage_term(voltage, adc_reading, adc_chars)>>), o2, w, a, 0)

nif_adc_take_reading(adc2, fuse, cur_width, cur_atten, pin, samples, raw, voltage, width, attenuation, drv, env) ==
    LET channel == get_channel(adc2, pin)
        samples_val == IF samples = <<>> THEN DEFAULT_SAMPLES ELSE samples[1]
        bit_width == get_width(width)
        atten == get_attenuation(attenuation)
        adc_unit == adc_unit_from_pin(adc2, pin)
        adc_chars == esp_adc_cal_characterize(fuse, adc_unit, atten, bit_width, DEFAULT_VREF)
        err == IF env.config_err THEN ESP_ERR_INVALID_ARG ELSE ESP_OK
        w1 == adc1_config_width(cur_width, bit_width, err)
        l1 == adc1_loop(drv, samples_val)
        l2 == adc2_loop(drv, samples_val, env.junk)
        o0 == [NoObs EXCEPT !.channel = channel, !.width_before = cur_width]
        o1 == [o0 EXCEPT !.unit = adc_unit]
        o2 == [o1 EXCEPT !.callocs = 1, !.chars = <<adc_chars>>, !.driver = 1]
        o3 == [o2 EXCEPT !.driver = 2]
        r1 == [o3 EXCEPT !.driver = 2 + l1.reads, !.reads = l1.reads, !.drv = drv,
                         !.read_width = IF l1.reads > 0 THEN w1 ELSE ADC_WIDTH_MAX]
        r2 == [o2 EXCEPT !.driver = 1 + l2.reads, !.reads = l2.reads, !.drv = drv,
                         !.read_width = IF l2.reads > 0 THEN bit_width ELSE ADC_WIDTH_MAX]
    IN  IF channel = ADC_CHANNEL_MAX
        THEN Effect(error_tuple(env.heap_full, Atom("invalid_pin")), o0, cur_width, cur_atten, 0)
        ELSE IF bit_width = ADC_WIDTH_MAX
        THEN Effect(error_tuple(env.heap_full, Atom("invalid_width")), o0, cur_width, cur_atten, 0)
        ELSE IF atten = ADC_ATTEN_MAX
        THEN Effect(error_tuple(env.heap_full, Atom("invalid_db")), o0, cur_width, cur_atten, 0)
        ELSE IF env.calloc_null
        THEN Effect(Raise(OUT_OF_MEMORY_ATOM), o1, cur_width, cur_atten, 0)
        ELSE IF adc_unit = ADC_UNIT_1
        THEN IF err # ESP_OK
             THEN Effect(error_tuple(env.heap_full, Atom("invalid_width")), o3, w1, cur_atten, 1)
             ELSE take_reading_finish(l1.acc, samples_val, raw, voltage, adc_chars, env,
                                      r1, w1, cur_atten)
        ELSE IF adc2 /\ adc_unit = ADC_UNIT_2
        THEN IF l2.timeout
             THEN Effect(error_tuple(env.heap_full, Atom("timeout")), r2, cur_width, cur_atten, 1)
             ELSE take_reading_finish(l2.acc, samples_val, raw, voltage, adc_chars, env,
                                      r2, cur_width, cur_atten)
        ELSE take_reading_finish(<<0, 0>>, samples_val, raw, voltage, adc_chars, env,
                                 o2, cur_width, cur_atten)

\* ------------------------------------------------------------------------
\* Inputs: what a caller may pass and how the environment may answer
\* ------------------------------------------------------------------------
Channels == ({ADC_UNIT_1} \X (0 .. 7)) \cup ({ADC_UNIT_2} \X (0 .. 9))

\* the largest sample of a capture width
MaxRaw(bit_width) == 2 ^ (9 + bit_width) - 1

SampleVals(bit_width) == {1, 3, MaxRaw(bit_width)}

\* the outcomes a read of the pin's unit can have
Outcomes(adc2, pin, bit_width) ==
    {Outcome(ESP_OK, v) : v \in SampleVals(bit_width)}
    \cup {Outcome(ESP_ERR_INVALID_ARG, 0)}
    \cup (IF adc_unit_from_pin(adc2, pin) = ADC_UNIT_2
          THEN {Outcome(ESP_ERR_TIMEOUT, 0)} ELSE {})

Patterns(S, maxlen) == UNION {[1 .. n -> S] : n \in 1 .. maxlen}

\* the width whose samples the hardware delivers for a width argument
HwWidth(width) == IF get_width(width) = ADC_WIDTH_MAX THEN ADC_WIDTH_BIT_12 ELSE get_width(width)

Env(heap_full, calloc_null, config_err, junk, ub) ==
    [heap_full |-> heap_full, calloc_null |-> calloc_null, config_err |-> config_err,
     junk |-> junk, ub |-> ub]

\* every combination of the three failures of the environment
Faults == {Env(h, c, e, 7, "trap") : h \in BOOLEAN, c \in BOOLEAN, e \in BOOLEAN}

\* what an uninitialised int or an undefined quotient may turn out to be
JunkVals == {0, 7}

\* ------------------------------------------------------------------------
\* Initial state and actions
\* ------------------------------------------------------------------------
Init ==
    /\ adc2_enable \in BOOLEAN
    /\ efuse \in {"tp", "vref", "none"}
    /\ adc1_width = ADC_WIDTH_BIT_12
    /\ chan_atten = [c \in Channels |-> ADC_ATTEN_DB_0]
    /\ heap_chars = 0
    /\ call = Idle
    /\ ret = NoRet
    /\ obs = NoObs

\* The call c is made and has the effect e. A trap restarts the chip: the
\* driver is back in its reset state and the heap is empty.
Apply(c, e) ==
    /\ call' = c
    /\ ret' = e.ret
    /\ obs' = e.obs
    /\ IF e.ret.kind = "trap"
       THEN /\ adc1_width' = ADC_WIDTH_BIT_12
            /\ chan_atten' = [ch \in Channels |-> ADC_ATTEN_DB_0]
            /\ heap_chars' = 0
       ELSE /\ adc1_width' = e.width
            /\ chan_atten' = e.atten
            /\ heap_chars' = heap_chars + e.leak
    /\ UNCHANGED <<adc2_enable, efuse>>

ConfigWidth(pins, widths) ==
    /\ call.op = "idle"
    /\ \E pin \in pins, width \in widths, env \in Faults :
          Apply([Idle EXCEPT !.op = "config_width", !.pin = pin, !.width = width],
                nif_adc_config_width(adc2_enable, adc1_width, chan_atten, pin, width, env))

ConfigChannelAttenuation(pins, attens) ==
    /\ call.op = "idle"
    /\ \E pin \in pins, atten \in attens, env \in Faults :
          Apply([Idle EXCEPT !.op = "config_channel_attenuation", !.pin = pin, !.atten = atten],
                nif_adc_config_channel_attenuation(adc2_enable, adc1_width, chan_atten,
                                                   pin, atten, env))

TakeReading(pins, sampleopts, flags, widths, attens, maxlen, envs) ==
    /\ call.op = "idle"
    /\ heap_chars < MaxOutstanding
    /\ \E pin \in pins, samples \in sampleopts, raw \in flags, voltage \in flags,
          width \in widths, atten \in attens, env \in envs :
          \E drv \in Patterns(Outcomes(adc2_enable, pin, HwWidth(width)), maxlen) :
             Apply([op |-> "take_reading", pin |-> pin, width |-> width, atten |-> atten,
                    samples |-> samples, raw |-> raw, voltage |-> voltage],
                   nif_adc_take_reading(adc2_enable, efuse, adc1_width, chan_atten, pin,
                                        samples, raw, voltage, width, atten, drv, env))

\* the caller takes the result; the next call can be made
Done ==
    /\ call.op # "idle"
    /\ call' = Idle
    /\ ret' = NoRet
    /\ obs' = NoObs
    /\ UNCHANGED <<adc2_enable, efuse, adc1_width, chan_atten, heap_chars>>

\* ------------------------------------------------------------------------
\* Spec: sequences of calls of the three entry points on a few pins of
\* either unit and off both, with every failure of the environment.
\* ------------------------------------------------------------------------
SomePins == {0 - 1, 4, 31, 32, 36}
SomeWidths == {"bit_9", "bit_12", "bit_13"}
SomeAttens == {"db_0", "db_11", "db_12"}

Next ==
    \/ ConfigWidth(SomePins, SomeWidths)
    \/ ConfigChannelAttenuation(SomePins, SomeAttens)
    \/ TakeReading(SomePins, {<<1>>, <<2>>}, {TRUE}, SomeWidths, SomeAttens, 1, Faults)
    \/ Done

Spec == Init /\ [][Next]_vars

\* ------------------------------------------------------------------------
\* SpecReading: take_reading on one pin of each unit, over sample counts
\* (absent, negative, zero, small, huge), option flags, widths and read
\* outcomes.
\* ------------------------------------------------------------------------
SampleOpts == {<<>>, <<0 - 1>>, <<0>>, <<BigSamples>>} \cup {<<n>> : n \in 1 .. MaxSamples}

ReadingEnvs ==
    {Env(FALSE, FALSE, FALSE, j, u) : j \in JunkVals, u \in {"trap", "quotient"}}

NextReading ==
    \/ TakeReading({4, 32}, SampleOpts, BOOLEAN, {"bit_9", "bit_12"}, {"db_0", "db_11"},
                   MaxPattern, ReadingEnvs)
    \/ Done

SpecReading == Init /\ [][NextReading]_vars

\* ------------------------------------------------------------------------
\* SpecPins: each entry point on every pin of PinRange, with every width
\* and attenuation symbol for the arguments that leave the driver as it is.
\* ------------------------------------------------------------------------
AllWidths == WidthAtoms \cup {"bit_13"}
AllAttens == AttenAtoms \cup {"db_12"}

NextPins ==
    \/ ConfigWidth(PinRange, AllWidths)
    \/ ConfigChannelAttenuation(PinRange, {"db_0", "db_12"})
    \/ TakeReading(PinRange, {<<1>>}, {TRUE}, AllWidths, AllAttens, 1, Faults)
    \/ Done

SpecPins == Init /\ [][NextPins]_vars

\* ------------------------------------------------------------------------
\* Reading the recorded call
\* ------------------------------------------------------------------------
\* the sample count the call asked for
SamplesVal == IF call.samples = <<>> THEN DEFAULT_SAMPLES ELSE call.samples[1]

\* the call returned {error, Reason}
IsErrorTuple == ret.kind = "return" /\ Len(ret.term) = 2 /\ ret.term[1] = ERROR_ATOM

\* the call returned a reading {Raw, Voltage}
IsReading == ret.kind = "return" /\ Len(ret.term) = 2 /\ ret.term[1] # ERROR_ATOM

\* the call got as far as its read loop
ReachedLoop == call.op = "take_reading" /\ obs.drv # <<>>

\* the indices of the listed outcomes; reads beyond them repeat the last
Listed == 1 .. Len(obs.drv)

\* every read the call asked for is answered ESP_OK
AllReadsOk == \A i \in Listed : i <= SamplesVal => obs.drv[i].err = ESP_OK

\* the index of the first read answered with an error, 0 if there is none
FirstFailure ==
    IF \E i \in Listed : obs.drv[i].err # ESP_OK
    THEN CHOOSE i \in Listed : /\ obs.drv[i].err # ESP_OK
                               /\ \A j \in 1 .. (i - 1) : obs.drv[j].err = ESP_OK
    ELSE 0

\* p + m * d >= 0, for m >= 0, without forming the product
LinNonNeg(p, m, d) ==
    IF m = 0 \/ d = 0 THEN p >= 0
    ELSE IF d > 0 THEN p >= 0 \/ m >= ((0 - p) + d - 1) \div d
    ELSE p >= 0 /\ m <= p \div (0 - d)

RECURSIVE SumDiff(_, _, _)
SumDiff(vals, k, q) == IF k = 0 THEN 0 ELSE (vals[k] - q) + SumDiff(vals, k - 1, q)

\* the sum of (v - q) over n values, the first ones vals[1], vals[2], ... and
\* the rest equal to the last of vals, is at least 0
SumAtLeast(vals, n, q) ==
    LET k == Min(n, Len(vals))
    IN  LinNonNeg(SumDiff(vals, k, q), n - k, vals[Len(vals)] - q)

\* q is the truncating quotient (sum of the n values) / n, for values in 0 .. 4095
IsTruncMean(q, vals, n) ==
    /\ q \in 0 .. 4095
    /\ SumAtLeast(vals, n, q)
    /\ ~SumAtLeast(vals, n, q + 1)

\* ------------------------------------------------------------------------
\* Claims
\* ------------------------------------------------------------------------

\* C1: take_reading with a samples option <= 0 fails with an error result,
\* performs no driver read and never divides the accumulator by the sample
\* count.
C1_NonPositiveSamplesRejected ==
    (call.op = "take_reading" /\ SamplesVal <= 0)
        => /\ IsErrorTuple \/ ret.kind = "raise"
           /\ obs.reads = 0
           /\ obs.divs = 0

\* C2: with N >= 1 samples asked for and every read answered ESP_OK, a
\* successful take_reading with raw requested has made exactly N reads and
\* returns as raw the truncating quotient (sum of the N samples) / N; for
\* N = 1 that is the single sample.
C2_RawIsTruncatedMean ==
    (ReachedLoop /\ SamplesVal >= 1 /\ AllReadsOk /\ IsReading /\ call.raw)
        => /\ obs.reads = SamplesVal
           /\ ret.term[1].t = "int"
           /\ IsTruncMean(ret.term[1].i, [i \in Listed |-> obs.drv[i].val], SamplesVal)
           /\ (SamplesVal = 1 => ret.term[1].i = obs.drv[1].val)

\* C2, for sample counts up to the default: the same statement holds when
\* the sum of the samples cannot exceed 32 bits.
C2_RawIsTruncatedMeanSmall ==
    (SamplesVal <= DEFAULT_SAMPLES) => C2_RawIsTruncatedMean

\* C3: if a read of take_reading is answered with an error, the call stops
\* at that read with an error result: no further read is made and no
\* reading is returned.
C3_ReadFailureAborts ==
    (ReachedLoop /\ FirstFailure > 0 /\ SamplesVal >= FirstFailure)
        => /\ IsErrorTuple
           /\ obs.reads = FirstFailure

\* the pin of the call is outside the Unit1 pin set, and outside the Unit2
\* pin set when ADC2 is enabled
PinUnsupported ==
    /\ call.op # "idle"
    /\ call.pin \notin Adc1Pins
    /\ adc2_enable => call.pin \notin Adc2Pins

InvalidPinError == Return(<<ERROR_ATOM, Atom("invalid_pin")>>)
InvalidWidthError == Return(<<ERROR_ATOM, Atom("invalid_width")>>)
InvalidDbError == Return(<<ERROR_ATOM, Atom("invalid_db")>>)
OutOfMemory == Raise(OUT_OF_MEMORY_ATOM)

\* the call touched neither the driver nor the native heap, and resolved
\* its pin to no unit and no channel
NothingDone ==
    /\ obs.driver = 0
    /\ obs.callocs = 0
    /\ obs.unit = ADC_UNIT_MAX
    /\ obs.channel = ADC_CHANNEL_MAX

\* C4 as stated: on an unsupported pin each entry point returns the
\* invalid-pin error, calls no driver function, allocates nothing and
\* resolves the pin to no channel.
C4_UnsupportedPinIsInvalidPin ==
    PinUnsupported => (ret = InvalidPinError /\ NothingDone)

\* C4, amended: on an unsupported pin each entry point returns the
\* invalid-pin error, or raises out_of_memory when the heap cannot hold the
\* error tuple; it never returns a driver error code, calls no driver
\* function, allocates nothing and resolves the pin to no channel.
C4_UnsupportedPinIsInvalidPinOrOom ==
    PinUnsupported => (ret \in {InvalidPinError, OutOfMemory} /\ NothingDone)

\* take_reading on a pin above every ADC pin answered {error, invalid_pin}
C4_Witness ==
    /\ call.op = "take_reading"
    /\ call.pin = MaxPin
    /\ PinUnsupported
    /\ ret = InvalidPinError

\* C5: for every pin, under either setting of the ADC2 build flag, the unit
\* resolver and the channel resolver agree: both report the pin unsupported,
\* or the pin has one unit and one channel of that unit; and whenever a call
\* has used a unit, it had resolved the pin to a channel.
C5_ResolversAgree ==
    /\ \A pin \in PinRange :
          LET unit == adc_unit_from_pin(adc2_enable, pin)
              channel == get_channel(adc2_enable, pin)
          IN  /\ (unit = ADC_UNIT_MAX) <=> (channel = ADC_CHANNEL_MAX)
              /\ unit \in {ADC_UNIT_1, ADC_UNIT_2, ADC_UNIT_MAX}
              /\ unit = ADC_UNIT_1 => channel \in 0 .. 7
              /\ unit = ADC_UNIT_2 => channel \in 0 .. 9
    /\ obs.unit # ADC_UNIT_MAX \/ obs.callocs > 0 \/ obs.driver > 0 =>
          /\ call.op = "config_width" \/ obs.channel # ADC_CHANNEL_MAX
          /\ obs.unit # ADC_UNIT_MAX

\* take_reading on pin 39, the last ADC1 pin, has read channel 3 of Unit1
C5_Witness ==
    /\ call.op = "take_reading"
    /\ call.pin = 39
    /\ obs.unit = ADC_UNIT_1
    /\ obs.channel = 3
    /\ obs.reads > 0

\* the call touched neither the driver nor the native heap
NoDriverNoHeap == obs.driver = 0 /\ obs.callocs = 0

TakesWidth == call.op \in {"config_width", "take_reading"}
TakesAtten == call.op \in {"config_channel_attenuation", "take_reading"}

\* C6 as stated: a width symbol outside the four width atoms makes
\* config_width and take_reading return the invalid-width error, an
\* attenuation symbol outside the four attenuation atoms makes
\* config_channel_attenuation and take_reading return the
\* invalid-attenuation error, in both cases before any driver call or
\* native allocation.
C6_UnknownSymbolIsError ==
    /\ (TakesWidth /\ call.width \notin WidthAtoms)
          => (ret = InvalidWidthError /\ NoDriverNoHeap)
    /\ (TakesAtten /\ call.atten \notin AttenAtoms)
          => (ret = InvalidDbError /\ NoDriverNoHeap)

\* C6, amended: on a supported pin, an unknown width symbol makes
\* config_width and take_reading return the invalid-width error, and an
\* unknown attenuation symbol makes config_channel_attenuation and (when the
\* width symbol is known) take_reading return the invalid-attenuation
\* error, or the call raises out_of_memory when the heap cannot hold the
\* error tuple; in every case no driver function is called and nothing is
\* allocated, so no default takes the symbol's place.
C6_UnknownSymbolIsErrorOnSupportedPin ==
    /\ (TakesWidth /\ ~PinUnsupported /\ call.width \notin WidthAtoms)
          => (ret \in {InvalidWidthError, OutOfMemory} /\ NoDriverNoHeap)
    /\ (TakesAtten /\ ~PinUnsupported /\ call.atten \notin AttenAtoms
           /\ (call.op = "take_reading" => call.width \in WidthAtoms))
          => (ret \in {InvalidDbError, OutOfMemory} /\ NoDriverNoHeap)

\* take_reading on an ADC1 pin with an unknown width answered
\* {error, invalid_width}
C6_Witness ==
    /\ call.op = "take_reading"
    /\ call.pin = 32
    /\ call.width = "bit_13"
    /\ ret = InvalidWidthError

\* the millivolt values of the listed samples under the call's characteristics
ConvertedSamples ==
    [i \in Listed |-> esp_adc_cal_raw_to_voltage(U32FromInt(obs.drv[i].val), obs.chars[1])]

C9_CharsBufferAlwaysFreed ==
    /\ heap_chars = 0
    /\ (call.op = "take_reading" /\ ret.kind \in {"return", "raise"})
          => obs.frees = obs.callocs

\* C10: a take_reading with width W on a Unit1 pin reads every sample with
\* the ADC1 driver width set to W, the width of its calibration
\* characteristics, whatever width the driver had before the call.
C10_Adc1ReadsAtRequestedWidth ==
    (call.op = "take_reading" /\ obs.unit = ADC_UNIT_1 /\ obs.reads > 0)
        => /\ call.width \in WidthAtoms
           /\ obs.read_width = get_width(call.width)
           /\ obs.chars[1].bit_width = obs.read_width
           /\ adc1_width = obs.read_width

\* a 12-bit reading of two samples on pin 32, taken when an earlier call had
\* left the driver at 9 bits
C10_Witness ==
    /\ call.op = "take_reading" /\ obs.unit = ADC_UNIT_1 /\ obs.reads = 2
    /\ call.pin = 32 /\ call.width = "bit_12"
    /\ obs.width_before = ADC_WIDTH_BIT_9
    /\ obs.read_width = ADC_WIDTH_BIT_12

\* the <<unit, channel>> the call sampled
SampledChannel == <<obs.unit, obs.channel>>

\* C11: after any sequence of config_channel_attenuation and take_reading
\* calls, a take_reading that samples a channel characterizes its
\* calibration with the attenuation the driver currently has configured for
\* that channel.
C11_CharacterizedAtDriverAttenuation ==
    (call.op = "take_reading" /\ obs.reads > 0)
        => /\ SampledChannel \in Channels
           /\ obs.chars[1].atten = chan_atten[SampledChannel]

\* C11, for a channel whose attenuation an earlier config_channel_attenuation
\* has set away from 0 dB: the same statement, which then does not depend
\* on the attenuation the driver starts with.
C11_CharacterizedAtConfiguredAttenuation ==
    (call.op = "take_reading" /\ obs.reads > 0
        /\ SampledChannel \in Channels
        /\ chan_atten[SampledChannel] # ADC_ATTEN_DB_0)
        => obs.chars[1].atten = chan_atten[SampledChannel]

====
